---- MODULE Spec2Model ----
(***************************************************************************)
(* A model of epo_app.py: the patent extraction run (main_extraction) and  *)
(* the three per-document enrichers it calls (extract_biblio_data,         *)
(* extract_cpc_data, fetch_register_data).                                 *)
(*                                                                         *)
(* Text is modelled as a sequence of one-character strings, so that        *)
(* str.strip, str.replace, slicing and f-string concatenation are computed *)
(* rather than assumed.  The empty string is <<>>.                         *)
(***************************************************************************)
EXTENDS Integers, Sequences, FiniteSets, TLC

\* ------------------------------------------------------------------ bounds
\* Largest record budget (max_records) a run is started with.
MaxRecords == 3
\* Largest window size (batch_size) a run is started with.
MaxBatch == 2
\* Largest result set the remote search holds.
MaxTotal == 3
\* Largest number of candidate paths that match a node in one biblio response.
MaxHits == 2
\* Longest list a register sub-resource returns.
MaxList == 2

\* The longest filter input a query is built from.
MaxInput == 3

\* ------------------------------------------------------------------- text
EMPTY == <<>>

IsSpace(c) == c = " "

RECURSIVE LStrip(_)
LStrip(s) == IF s # <<>> /\ IsSpace(Head(s)) THEN LStrip(Tail(s)) ELSE s

RECURSIVE RStrip(_)
RStrip(s) ==
    IF s # <<>> /\ IsSpace(s[Len(s)]) THEN RStrip(SubSeq(s, 1, Len(s) - 1)) ELSE s

\* str.strip()
Strip(s) == RStrip(LStrip(s))

\* Python truthiness of a str (or of None, modelled as the empty text)
Truthy(s) == s # <<>>

Min(S) == CHOOSE m \in S : \A n \in S : m <= n

MinOf(a, b) == IF a <= b THEN a ELSE b

\* math.ceil(a / b) for a >= 0, b >= 1
CeilDiv(a, b) == (a + b - 1) \div b

\* safe_xpath(root, "<path>/text()", ns) with return_all=False, where res is
\* the list of text nodes the path selects: the first node, stripped,
\* or "" when the path selects nothing.
SafeXPathFirst(res) == IF res # <<>> THEN Strip(res[1]) ELSE EMPTY

\* ----------------------------------------------------- timeouts of the calls
\* The remote calls that are issued with timeout=15 (fetch_register_data,
\* extract_biblio_data, extract_cpc_data).  The token exchange and the two
\* search requests of main_extraction pass no timeout.
TimedCalls == {"biblio", "cpc", "register"}

\* What the caller observes for an outcome of a call of the given kind.  A
\* peer that never answers raises requests.Timeout when the call carries a
\* timeout, and blocks the caller for ever when it does not.
Observe(kind, outcome) ==
    IF outcome = "no_response"
    THEN IF kind \in TimedCalls THEN "exception" ELSE "hang"
    ELSE outcome

\* ------------------------------------------------------------ search entries
\* An ex:exchange-document node of a search response:
\*   doc_number  the doc-number attribute (<<>> when absent or empty)
\*   doc_id      the doc-id attribute
\*   epodoc      the first .//ex:document-id[@document-id-type='epodoc']:
\*               "none"      no such element
\*               "no_number" it has no ex:doc-number child
\*               "leaf"      its ex:doc-number child has no child elements
\*               "parent"    its ex:doc-number child has child elements
\*   pub_ref     the first epodoc document-id of the publication reference:
\*               NoRef, or the text nodes of its country, doc-number, kind
\*               and date children
\*   applicant   text of the first .//ex:applicant-name/ex:name (<<>>: none)
\*   address     text of the first applicant address country (<<>>: none)
NoRef == [present |-> FALSE]

PubRef(c, n, k, d) ==
    [present |-> TRUE, country |-> c, number |-> n, kind |-> k, date |-> d]

Entry(dn, id, ep, pr, ap, ad) ==
    [doc_number |-> dn, doc_id |-> id, epodoc |-> ep, pub_ref |-> pr,
     applicant |-> ap, address |-> ad]

\* str() of an lxml element, as an f-string or a record cell would show it
ELEMENT_REPR == <<"<", "E", ">">>

\* Lines 500-504: the doc-number attribute, else safe_xpath of the first
\* epodoc document-id's ./ex:doc-number.  That path selects an element, not
\* text, so safe_xpath returns the element itself; "" when nothing matches.
RawDocNum(doc) ==
    IF Truthy(doc.doc_number) THEN [elem |-> FALSE, text |-> doc.doc_number]
    ELSE IF doc.epodoc \in {"leaf", "parent"}
         THEN [elem |-> TRUE, children |-> doc.epodoc = "parent", text |-> ELEMENT_REPR]
         ELSE [elem |-> FALSE, text |-> EMPTY]

\* Faulty variant of IdentifierResolves, for comparison: the drop test removed.
IdentifierResolves_always(doc) == TRUE

\* Line 508: "if not doc_num: continue".  A str is truthy when non-empty; an
\* lxml element is truthy when it has child elements.
IdentifierResolves(doc) ==
    LET raw == RawDocNum(doc)
    IN  IF raw.elem THEN raw.children ELSE Truthy(raw.text)

\* Lines 518-525: the composed number of the publication reference.
FullDocNumber(doc) ==
    IF ~doc.pub_ref.present THEN EMPTY
    ELSE LET country == SafeXPathFirst(doc.pub_ref.country)
             number  == SafeXPathFirst(doc.pub_ref.number)
             kind    == SafeXPathFirst(doc.pub_ref.kind)
         IN  IF Truthy(country) /\ Truthy(number)
             THEN IF Truthy(kind) THEN country \o number \o kind
                  ELSE country \o number
             ELSE EMPTY

\* Lines 500-504 and 539-540: the identifier the enrichers are called with.
ResolveDocNum(doc) ==
    IF Truthy(FullDocNumber(doc)) THEN FullDocNumber(doc) ELSE RawDocNum(doc).text

\* Lines 527-528: the search-level publication date (not stripped).
SearchPubDate(doc) ==
    IF doc.pub_ref.present /\ doc.pub_ref.date # <<>> THEN doc.pub_ref.date[1]
    ELSE EMPTY

\* Lines 530-532
SearchApplicant(doc) == Strip(doc.applicant)

\* Lines 534-537
SearchApplicantCountry(doc) == Strip(doc.address)

\* Faulty variant of Fallback, for comparison: the search-level value always wins.
Fallback_search_first(enriched, searched) ==
    IF Truthy(searched) THEN searched ELSE enriched

\* Lines 549-554: "if not x: x = search_x"
Fallback(enriched, searched) == IF ~Truthy(enriched) THEN searched ELSE enriched

\* --------------------------------------------------- extract_biblio_data
\* The three fields of extract_biblio_data, each with NumPaths candidate
\* paths (pub_date_paths, applicant_name_paths, applicant_country_paths).
BiblioFields == {"date", "name", "country"}

NumPaths == 7

\* The two endpoint variants (epodoc, docdb) of biblio_urls and cpc_urls.
NumUrls == 2

Slots == BiblioFields \X (1..NumPaths)

\* A parsed biblio body: for every (field, path), the list of text nodes the
\* path selects in it.
NoDoc == [s \in Slots |-> <<>>]

FieldLetter(f) == CASE f = "date" -> "D" [] f = "name" -> "N" [] OTHER -> "C"

Digits == <<"1", "2", "3", "4", "5", "6", "7">>

\* The text that only path i of field f selects.
TagOf(s) == <<FieldLetter(s[1]), Digits[s[2]]>>

\* What a matching path can select: a blank node, a padded value, or a
\* blank node followed by a value.
NodeVariant(s, v) ==
    CASE v = 1 -> << <<" ">> >>
      [] v = 2 -> << <<" ">> \o TagOf(s) \o <<" ">> >>
      [] OTHER -> << <<" ">>, TagOf(s) >>

FieldSeq == <<"date", "name", "country">>

\* The slots in a fixed order: the paths of date, of name, of country.
SlotAt(n) == <<FieldSeq[((n - 1) \div NumPaths) + 1], ((n - 1) % NumPaths) + 1>>

\* The sets of at most k of the first m slots.
RECURSIVE HitSets(_, _)
HitSets(k, m) ==
    IF k = 0 \/ m = 0 THEN {{}}
    ELSE HitSets(k, m - 1) \cup {H \cup {SlotAt(m)} : H \in HitSets(k - 1, m - 1)}

MakeDoc(H, t) == [s \in Slots |-> IF s \in H THEN NodeVariant(s, t[s]) ELSE <<>>]

\* Faulty variant of TryPaths, for comparison: the loop does not stop at the first non-empty value.
RECURSIVE TryPaths_no_break(_, _, _)
TryPaths_no_break(root, f, i) ==
    LET value == SafeXPathFirst(root[<<f, i>>])
    IN  IF i = NumPaths THEN value ELSE TryPaths_no_break(root, f, i + 1)

\* Lines 295-300 (and 313-318, 331-336): "for path in paths: value =
\* safe_xpath(b_root, path, ns); if value: break", from path i on.
RECURSIVE TryPaths(_, _, _)
TryPaths(root, f, i) ==
    LET value == SafeXPathFirst(root[<<f, i>>])
    IN  IF Truthy(value) \/ i = NumPaths THEN value ELSE TryPaths(root, f, i + 1)

\* Lines 295-339: the triple returned for a parsed body.
ExtractBiblio(root) ==
    [date |-> TryPaths(root, "date", 1), name |-> TryPaths(root, "name", 1),
     country |-> TryPaths(root, "country", 1)]

NoBiblio == [date |-> EMPTY, name |-> EMPTY, country |-> EMPTY]

\* What one GET of a biblio or classifications URL can come to.
FetchFailures == {"no_response", "conn_error", "404", "500", "empty", "malformed"}

BiblioOutcome(k, root) == [kind |-> k, root |-> root]

\* The outcomes a biblio request is explored with: the failures, the sets of
\* slots that select a node in a parsed body, and what a slot may select.
\* Every outcome, bodies bounded by MaxHits:
AllBiblio ==
    [fails |-> FetchFailures, hits |-> HitSets(MaxHits, Cardinality(Slots)),
     variants |-> {1, 2, 3}]

\* Bodies in which each field is found by its first path or not at all.
DocBiblio ==
    [fails |-> {"500"}, hits |-> {F \X {1} : F \in SUBSET BiblioFields},
     variants |-> {2}]

\* The outcomes a whole run is explored with.
RunBiblio ==
    [fails |-> {"no_response", "404"}, hits |-> {{<<"date", 1>>, <<"name", 3>>}},
     variants |-> {2}]

\* ------------------------------------------------------ extract_cpc_data
NumCpcPaths == 4

NumSymbolPaths == 4

\* A parsed classifications body: for each container path of cpc_paths, the
\* nodes it selects; a node gives, for each path of symbol_paths, the list of
\* results the path selects on it.
NoCpc == [p \in 1..NumCpcPaths |-> <<>>]

CpcNode(results) == [p \in 1..NumSymbolPaths |-> IF p = 1 THEN results ELSE <<>>]

\* Lines 405-412: the code of one node.
RECURSIVE SymbolOf(_, _, _)
SymbolOf(c, p, code) ==
    IF p > NumSymbolPaths THEN code
    ELSE IF c[p] # <<>>
         THEN IF Truthy(Strip(c[p][1])) THEN Strip(c[p][1])
              ELSE SymbolOf(c, p + 1, Strip(c[p][1]))
         ELSE SymbolOf(c, p + 1, code)

\* Line 415: str.replace(" ", "").replace("/", "")
CodeClean(code) == SelectSeq(code, LAMBDA ch : ch # " " /\ ch # "/")

\* Lines 397-418 over the nodes cpcs[k..]: (cpc_main, cpc_full)
RECURSIVE CodesOf(_, _, _)
CodesOf(cpcs, k, acc) ==
    IF k > Len(cpcs) THEN acc
    ELSE LET code  == SymbolOf(cpcs[k], 1, EMPTY)
             clean == CodeClean(code)
         IN  IF Truthy(code)
             THEN CodesOf(cpcs, k + 1,
                    [main |-> IF ~Truthy(acc.main) /\ Len(clean) >= 4
                              THEN SubSeq(clean, 1, 4) ELSE acc.main,
                     full |-> Append(acc.full, clean)])
             ELSE CodesOf(cpcs, k + 1, acc)

NoCodes == [main |-> EMPTY, full |-> <<>>]

\* Faulty variant of ExtractCpcFrom, for comparison: a container path whose
\* nodes give no code is passed over.
RECURSIVE ExtractCpcFrom_fallthrough(_, _)
ExtractCpcFrom_fallthrough(root, p) ==
    IF p > NumCpcPaths THEN NoCodes
    ELSE IF root[p] # <<>> /\ CodesOf(root[p], 1, NoCodes).full # <<>>
         THEN CodesOf(root[p], 1, NoCodes)
         ELSE ExtractCpcFrom_fallthrough(root, p + 1)

\* Lines 393-419: the first container path that selects any node is used.
RECURSIVE ExtractCpcFrom(_, _)
ExtractCpcFrom(root, p) ==
    IF p > NumCpcPaths THEN NoCodes
    ELSE IF root[p] # <<>> THEN CodesOf(root[p], 1, NoCodes)
         ELSE ExtractCpcFrom(root, p + 1)

ExtractCpc(root) == ExtractCpcFrom(root, 1)

\* Line 570: ";".join(cpc_full)
RECURSIVE Join(_)
Join(full) ==
    IF full = <<>> THEN EMPTY
    ELSE IF Len(full) = 1 THEN full[1]
         ELSE full[1] \o <<";">> \o Join(Tail(full))

CpcOutcome(k, root) == [kind |-> k, root |-> root]

\* The outcomes a whole run is explored with: no answer, or a body without
\* classification nodes.
RunCpc == {CpcOutcome("no_response", NoCpc), CpcOutcome("ok", NoCpc)}

\* The outcomes one document is explored with.
DocCpc ==
    {CpcOutcome("500", NoCpc),
     CpcOutcome("ok", [NoCpc EXCEPT ![2] =
                        <<CpcNode(<< <<"H", "0", "4", "L", " ", "9", "/", "0">> >>)>>])}

\* --------------------------------------------------- fetch_register_data
\* The endpoints dict, in insertion order.
RegKeys == <<"rep", "opp", "appeal">>

NoRegister ==
    [RepName |-> EMPTY, RepCountry |-> EMPTY, OpponentName |-> EMPTY,
     OppositionFilingDate |-> EMPTY, AppealNr |-> EMPTY, AppealResult |-> EMPTY,
     AppealDate |-> EMPTY]

\* An entry of a sub-resource's list: a JSON object with up to three of the
\* keys read (f1: name / number, f2: countryCode / dateFiled / result,
\* f3: resultDate; <<>> for a key that is missing), or a JSON scalar.
Item(object, f1, f2, f3) == [object |-> object, f1 |-> f1, f2 |-> f2, f3 |-> f3]

RegOutcome(k, list) == [kind |-> k, list |-> list]

RegFailures ==
    {"no_response", "conn_error", "500", "empty", "malformed", "not_object"}

\* Whether the try block of one sub-fetch ends in "except Exception".
RegRaises(o) ==
    \/ Observe("register", o.kind) \in {"exception", "conn_error", "not_object"}
    \/ o.kind = "ok" /\ o.list # <<>> /\ ~o.list[1].object

\* Faulty variant of RegisterStore, for comparison: an exception clears what earlier sub-fetches stored.
RegisterStore_reset(data, key, o) ==
    IF o.kind # "ok" THEN NoRegister
    ELSE IF o.list = <<>> \/ ~o.list[1].object THEN data
    ELSE LET r == o.list[1]
         IN  CASE key = "rep" -> [data EXCEPT !.RepName = r.f1, !.RepCountry = r.f2]
               [] key = "opp" ->
                    [data EXCEPT !.OpponentName = r.f1, !.OppositionFilingDate = r.f2]
               [] OTHER ->
                    [data EXCEPT !.AppealNr = r.f1, !.AppealResult = r.f2,
                                 !.AppealDate = r.f3]

\* Lines 215-244: what one sub-fetch leaves in data.
RegisterStore(data, key, o) ==
    IF Observe("register", o.kind) # "ok" THEN data
    ELSE IF o.list = <<>> \/ ~o.list[1].object THEN data
    ELSE LET r == o.list[1]
         IN  CASE key = "rep" -> [data EXCEPT !.RepName = r.f1, !.RepCountry = r.f2]
               [] key = "opp" ->
                    [data EXCEPT !.OpponentName = r.f1, !.OppositionFilingDate = r.f2]
               [] OTHER ->
                    [data EXCEPT !.AppealNr = r.f1, !.AppealResult = r.f2,
                                 !.AppealDate = r.f3]

\* The outcomes a whole run is explored with: no answer, or an empty list.
RunRegister == {RegOutcome("no_response", <<>>), RegOutcome("ok", <<>>)}

RunRegisterFor == [k \in {"rep", "opp", "appeal"} |-> RunRegister]

\* The first entries a list is explored with: every combination of the keys
\* read being present or missing, and a scalar.
FirstItems(key) ==
    {Item(TRUE, f1, f2, f3) :
        f1 \in {EMPTY, <<key, "1">>}, f2 \in {EMPTY, <<key, "2">>},
        f3 \in IF key = "appeal" THEN {EMPTY, <<key, "3">>} ELSE {EMPTY}}
      \cup {Item(FALSE, EMPTY, EMPTY, EMPTY)}

\* A later entry of a list: all keys present, with other values.
LaterItem == Item(TRUE, <<"x", "1">>, <<"x", "2">>, <<"x", "3">>)

\* Every outcome of a register request, lists bounded by MaxList.
AllRegister ==
    [key \in {"rep", "opp", "appeal"} |->
        {RegOutcome(k, <<>>) : k \in RegFailures \cup {"ok"}}
          \cup {RegOutcome("ok", <<first>> \o [n \in 1..more |-> LaterItem]) :
                  first \in FirstItems(key), more \in 0..(MaxList - 1)}]

\* ----------------------------------------------------------------- pacing
\* time.sleep arguments, in half seconds: sleep(2) before a biblio request
\* and before a register request (and again after a register exception),
\* sleep(1.5) before a classifications request.
BIBLIO_SLEEP == 4

CPC_SLEEP == 3

REGISTER_SLEEP == 4

\* The values of the "Delay (seconds)" input a run is explored with: the
\* widget's minimum and its default.
DelayChoices == {1, 6}

\* pace: the kind of the last remote call issued, the time slept since it,
\* and the inter-window delay slept since the last search request; and, as
\* they were when the last call was issued, the kind of the call before it
\* and the time slept between the two.
NoPace == [last |-> "none", elapsed |-> 0, win |-> 0, prev |-> "none", gap |-> 0]

Called(p, kind) ==
    [last |-> kind, elapsed |-> 0, win |-> IF kind = "search" THEN 0 ELSE p.win,
     prev |-> p.last, gap |-> p.elapsed]

\* Faulty variant of Slept, for comparison: the sleep returns at once.
Slept_none(p, halves) == p

Slept(p, halves) == [p EXCEPT !.elapsed = @ + halves]

SleptWindow(p, halves) == [p EXCEPT !.elapsed = @ + halves, !.win = @ + halves]

\* ------------------------------------------------------- build_cql_query
\* str.split(','): the segments between commas (one more than the commas).
RECURSIVE Split(_, _)
Split(s, cur) ==
    IF s = <<>> THEN <<cur>>
    ELSE IF Head(s) = "," THEN <<cur>> \o Split(Tail(s), EMPTY)
         ELSE Split(Tail(s), Append(cur, Head(s)))

\* Lines 11, 20, 29, 38, 47: [kw.strip() for kw in s.split(',') if kw.strip()]
Keywords(s) ==
    LET parts == Split(s, EMPTY)
    IN  SelectSeq([k \in 1..Len(parts) |-> Strip(parts[k])], Truthy)

\* sep.join(parts)
RECURSIVE JoinWith(_, _)
JoinWith(sep, parts) ==
    IF parts = <<>> THEN EMPTY
    ELSE IF Len(parts) = 1 THEN parts[1]
         ELSE parts[1] \o sep \o JoinWith(sep, Tail(parts))

\* f'ti="{kw}"'
Clause(tag, kw) == tag \o <<"=", "\"">> \o kw \o <<"\"">>

AND == <<" ", "A", "N", "D", " ">>

OR == <<" ", "O", "R", " ">>

\* The filters whose branch of build_cql_query is present in full, in the
\* order of the branches, with the index each is searched under and the
\* operator its clauses are joined with.
QueryFields == <<"title_kw", "abstract_kw", "applicant", "inventor", "ipc">>

TagOfField ==
    [title_kw |-> <<"t", "i">>, abstract_kw |-> <<"a", "b">>,
     applicant |-> <<"p", "a">>, inventor |-> <<"i", "n">>, ipc |-> <<"i", "c">>]

OperatorOfField ==
    [title_kw |-> AND, abstract_kw |-> AND, applicant |-> OR, inventor |-> OR,
     ipc |-> OR]

\* Lines 12-16 (likewise 21-25, 30-34, 39-43, 48-52): what one filter appends.
FieldPart(f, input) ==
    LET keywords == Keywords(input)
    IN  IF Len(keywords) = 1
        THEN Clause(TagOfField[f], keywords[1])
        ELSE <<"(">>
             \o JoinWith(OperatorOfField[f],
                         [k \in 1..Len(keywords) |-> Clause(TagOfField[f], keywords[k])])
             \o <<")">>

\* Line 6: f'pd within "{year}0101 {year}1231"'
YearClause(year) ==
    <<"p", "d", " ", "w", "i", "t", "h", "i", "n", " ", "\"">> \o year
    \o <<"0", "1", "0", "1", " ">> \o year \o <<"1", "2", "3", "1", "\"">>

\* Lines 9-52 from the k-th filter on: query_parts.
RECURSIVE BuildFrom(_, _, _)
BuildFrom(c, k, parts) ==
    IF k > Len(QueryFields) THEN parts
    ELSE LET f == QueryFields[k]
         IN  BuildFrom(c, k + 1,
                       IF Truthy(c[f]) THEN Append(parts, FieldPart(f, c[f]))
                       ELSE parts)

\* Lines 1-52: query_parts after the ipc branch.
build_cql_query(year, c) == BuildFrom(c, 1, <<YearClause(year)>>)

YEAR == <<"2", "0", "2", "3">>

NoCriteria == [f \in {QueryFields[k] : k \in 1..Len(QueryFields)} |-> EMPTY]

\* ------------------------------------------------------------------ state
VARIABLES
    max_records, batch_size, delay,   \* the run's inputs
    corpus,            \* the result set the remote search holds for the query
    pc,                \* where the run is
    result,            \* what main_extraction returned
    error,             \* where the exception the outer handler caught was raised
    headers,           \* whether the bearer token was obtained
    search_root,       \* the documents of the first search response
    total_results, total_to_fetch, total_batches, batch_num,
    request,           \* the Range of the last search request, and the budget then
    batch_resp,        \* what the last search request came to
    skipped,           \* the batches skipped after a non-200 response
    documents, i,      \* the documents of the current batch, and the loop index
    doc_num, oid, search_pub_date, search_applicant, search_applicant_country,
    url_type,          \* the loop index of extract_biblio_data / extract_cpc_data
    tried,             \* what the requests of the current enricher call came to
    b_root,            \* the body extract_biblio_data parsed
    biblio,            \* the triple extract_biblio_data returned
    pub_date, applicant_name, applicant_country,
    cpc_root,          \* the body extract_cpc_data parsed
    cpc_main, cpc_full,
    reg_key,           \* the index of the register endpoint being fetched
    reg_seen,          \* what the register requests of this document came to
    data,              \* the dict fetch_register_data fills
    all_records,
    pace,
    criteria,          \* the filter inputs build_cql_query is called with
    query_parts,       \* what build_cql_query has built
    q_pc               \* whether build_cql_query has been called

inputVars == <<max_records, batch_size, delay, corpus>>

searchVars ==
    <<headers, search_root, total_results, total_to_fetch, total_batches, request>>

batchVars == <<batch_num, batch_resp, skipped, documents>>

entryVars ==
    <<doc_num, oid, search_pub_date, search_applicant, search_applicant_country>>

biblioVars == <<b_root, biblio, pub_date, applicant_name, applicant_country>>

cpcVars == <<cpc_root, cpc_main, cpc_full>>

regVars == <<reg_key, reg_seen, data>>

queryVars == <<criteria, query_parts, q_pc>>

vars ==
    <<inputVars, pc, result, error, searchVars, batchVars, i, entryVars, url_type,
      tried, biblioVars, cpcVars, regVars, all_records, pace, queryVars>>

Pending == [kind |-> "pending"]

None == [kind |-> "None"]

DataFrame(rows) == [kind |-> "DataFrame", rows |-> rows]

NoRequest == [start |-> 0, end |-> 0, budget |-> 0]

\* ----------------------------------------------------------- search entries
\* The entries a whole run is explored with: one without any identifier, one
\* with a bare doc-number, one with a publication reference as well.
T_9 == <<"9">>

T_US == <<"U", "S">>

T_7 == <<"7">>

T_A1 == <<"A", "1">>

RunEntries ==
    {Entry(EMPTY, <<"a">>, "none", NoRef, <<>>, <<>>),
     Entry(T_9, <<"b">>, "none", NoRef, <<>>, <<>>),
     Entry(T_9, <<"c">>, "leaf", PubRef(<<T_US>>, <<T_7>>, <<T_A1>>, <<<<"d">>>>),
           <<" ", "n">>, <<>>)}

SeqsUpTo(S, n) == UNION {[1..k -> S] : k \in 0..n}

\* --------------------------------------------------------------- the run
\* build_cql_query is not called.
NoQuery ==
    /\ criteria = NoCriteria
    /\ query_parts = <<>>
    /\ q_pc = "idle"

\* main_extraction is entered.
NotStarted ==
    /\ pc = "auth"
    /\ result = Pending
    /\ error = "none"
    /\ headers = FALSE
    /\ search_root = <<>>
    /\ total_results = 0
    /\ total_to_fetch = 0
    /\ total_batches = 0
    /\ batch_num = 0
    /\ request = NoRequest
    /\ batch_resp = "none"
    /\ skipped = {}
    /\ documents = <<>>
    /\ i = 1
    /\ doc_num = EMPTY
    /\ oid = EMPTY
    /\ search_pub_date = EMPTY
    /\ search_applicant = EMPTY
    /\ search_applicant_country = EMPTY
    /\ url_type = 0
    /\ tried = <<>>
    /\ b_root = NoDoc
    /\ biblio = NoBiblio
    /\ pub_date = EMPTY
    /\ applicant_name = EMPTY
    /\ applicant_country = EMPTY
    /\ cpc_root = NoCpc
    /\ cpc_main = EMPTY
    /\ cpc_full = <<>>
    /\ reg_key = 1
    /\ reg_seen = <<>>
    /\ data = NoRegister
    /\ all_records = <<>>
    /\ pace = NoPace

Init ==
    /\ max_records \in 1..MaxRecords
    /\ batch_size \in 1..MaxBatch
    /\ delay \in DelayChoices
    /\ corpus \in SeqsUpTo(RunEntries, MaxTotal)
    /\ NotStarted
    /\ NoQuery

\* Lines 593-595: the outer handler; main_extraction returns None.
Caught(where) ==
    /\ error' = where
    /\ result' = None
    /\ pc' = "done"

\* A call without a timeout that is never answered.
Blocked ==
    /\ pc' = "blocked"
    /\ UNCHANGED <<result, error>>

AuthOutcomes == {"ok", "http_error", "conn_error", "malformed", "no_token", "no_response"}

\* Lines 440-445: the token exchange.
Auth ==
    /\ pc = "auth"
    /\ \E o \in AuthOutcomes :
         LET seen == Observe("token", o)
         IN  /\ pace' = Called(pace, "token")
             /\ CASE seen = "ok" ->
                       /\ headers' = TRUE
                       /\ pc' = "search"
                       /\ UNCHANGED <<result, error>>
                  [] seen = "hang" -> Blocked /\ UNCHANGED headers
                  [] OTHER -> Caught("auth") /\ UNCHANGED headers
    /\ UNCHANGED <<inputVars, queryVars, search_root, total_results, total_to_fetch, total_batches,
                   request, batchVars, i, entryVars, url_type, tried, biblioVars,
                   cpcVars, regVars, all_records>>

SearchOutcomes ==
    {"ok", "http_error", "conn_error", "malformed", "no_count", "no_response"}

\* Line 462: "Range": f"1-{batch_size}"
FirstRange(size, budget) == [start |-> 1, end |-> size]

\* Faulty variant of BatchRange, for comparison: a window starts on the last
\* entry of the window before it.
BatchRange_overlap(b, size, total) ==
    [start |-> b * size, end |-> MinOf(b * size + size - 1, total)]

\* Lines 476-477
BatchRange(b, size, total) ==
    [start |-> b * size + 1, end |-> MinOf(b * size + 1 + size - 1, total)]

\* The documents the remote search returns for a range.
Served(range) == SubSeq(corpus, range.start, MinOf(range.end, Len(corpus)))

\* Lines 460-475: the first search request, the totals, and the loop entry.
FirstSearch ==
    /\ pc = "search"
    /\ LET range == FirstRange(batch_size, max_records - Len(all_records))
       IN  /\ request' = [start |-> range.start, end |-> range.end,
                          budget |-> max_records - Len(all_records)]
           /\ pace' = Called(pace, "search")
           /\ \E o \in SearchOutcomes :
                LET seen == Observe("search", o)
                IN  CASE seen = "ok" ->
                           /\ search_root' = Served(range)
                           /\ total_results' = Len(corpus)
                           /\ total_to_fetch' = MinOf(Len(corpus), max_records)
                           /\ total_batches' =
                                CeilDiv(MinOf(Len(corpus), max_records), batch_size)
                           /\ pc' = IF CeilDiv(MinOf(Len(corpus), max_records), batch_size) > 0
                                    THEN "window" ELSE "finish"
                           /\ UNCHANGED <<result, error>>
                      [] seen = "hang" ->
                           /\ Blocked
                           /\ UNCHANGED <<search_root, total_results, total_to_fetch,
                                          total_batches>>
                      [] OTHER ->
                           /\ Caught("search")
                           /\ UNCHANGED <<search_root, total_results, total_to_fetch,
                                          total_batches>>
    /\ UNCHANGED <<inputVars, queryVars, headers, batchVars, i, entryVars, url_type, tried,
                   biblioVars, cpcVars, regVars, all_records>>

\* The for statement of line 475 taking its next value after batch b.
ContinueBatch(b) ==
    /\ batch_num' = b + 1
    /\ pc' = IF b + 1 < total_batches THEN "window" ELSE "finish"

\* Faulty variant of SkipWindow, for comparison: a failed window ends the loop.
SkipWindow_break(b) ==
    /\ batch_num' = b
    /\ pc' = "finish"

\* Lines 487-489: "continue" after a window whose status is not 200.
SkipWindow(b) == ContinueBatch(b)

\* Lines 482-483 and 493: batch 0 reuses the first response.
FirstWindow ==
    /\ pc = "window"
    /\ batch_num = 0
    /\ documents' = search_root
    /\ i' = 1
    /\ pc' = "doc"
    /\ UNCHANGED <<inputVars, queryVars, result, error, searchVars, batch_num, batch_resp, skipped,
                   entryVars, url_type, tried, biblioVars, cpcVars, regVars,
                   all_records, pace>>

WindowOutcomes == {"ok", "http_error", "conn_error", "malformed", "no_response"}

\* Lines 484-493: a later batch requests its window.
FetchWindow ==
    /\ pc = "window"
    /\ batch_num > 0
    /\ LET range == BatchRange(batch_num, batch_size, total_to_fetch)
       IN  /\ request' = [start |-> range.start, end |-> range.end,
                          budget |-> max_records - Len(all_records)]
           /\ pace' = Called(pace, "search")
           /\ \E o \in WindowOutcomes :
                LET seen == Observe("search", o)
                IN  /\ batch_resp' = seen
                    /\ CASE seen = "ok" ->
                              /\ documents' = Served(range)
                              /\ i' = 1
                              /\ pc' = "doc"
                              /\ UNCHANGED <<result, error, batch_num, skipped>>
                         [] seen = "http_error" ->
                              /\ SkipWindow(batch_num)
                              /\ skipped' = skipped \cup {batch_num}
                              /\ UNCHANGED <<result, error, documents, i>>
                         [] seen = "hang" ->
                              /\ Blocked
                              /\ UNCHANGED <<batch_num, skipped, documents, i>>
                         [] OTHER ->
                              /\ Caught("window")
                              /\ UNCHANGED <<batch_num, skipped, documents, i>>
    /\ UNCHANGED <<inputVars, queryVars, headers, search_root, total_results, total_to_fetch,
                   total_batches, entryVars, url_type, tried, biblioVars, cpcVars,
                   regVars, all_records>>

\* Faulty variant of BudgetReached, for comparison: off by one.
BudgetReached_late(records, limit) == Len(records) > limit

\* Lines 496 and 581: "len(all_records) >= max_records"
BudgetReached(records, limit) == Len(records) >= limit

\* Lines 495-497 and 581-586: the document loop ends (exhausted, or the
\* budget is reached); the batch loop breaks, or sleeps and goes on.
EndOfBatch ==
    /\ pc = "doc"
    /\ i > Len(documents) \/ BudgetReached(all_records, max_records)
    /\ IF BudgetReached(all_records, max_records)
       THEN /\ pc' = "finish"
            /\ UNCHANGED <<batch_num, pace>>
       ELSE /\ ContinueBatch(batch_num)
            /\ pace' = IF batch_num < total_batches - 1
                       THEN SleptWindow(pace, 2 * delay) ELSE pace
    /\ UNCHANGED <<inputVars, queryVars, result, error, searchVars, batch_resp, skipped, documents,
                   i, entryVars, url_type, tried, biblioVars, cpcVars, regVars,
                   all_records>>

\* Lines 499-509: an entry without an identifier is passed over.
DropEntry ==
    /\ pc = "doc"
    /\ i <= Len(documents)
    /\ ~BudgetReached(all_records, max_records)
    /\ ~IdentifierResolves(documents[i])
    /\ doc_num' = RawDocNum(documents[i]).text
    /\ oid' = documents[i].doc_id
    /\ i' = i + 1
    /\ UNCHANGED <<inputVars, queryVars, pc, result, error, searchVars, batchVars, search_pub_date,
                   search_applicant, search_applicant_country, url_type, tried,
                   biblioVars, cpcVars, regVars, all_records, pace>>

\* Lines 499-546: the identifier and the search-level values of an entry;
\* extract_biblio_data is entered.
BeginEntry ==
    /\ pc = "doc"
    /\ i <= Len(documents)
    /\ ~BudgetReached(all_records, max_records)
    /\ IdentifierResolves(documents[i])
    /\ doc_num' = ResolveDocNum(documents[i])
    /\ oid' = documents[i].doc_id
    /\ search_pub_date' = SearchPubDate(documents[i])
    /\ search_applicant' = SearchApplicant(documents[i])
    /\ search_applicant_country' = SearchApplicantCountry(documents[i])
    /\ url_type' = 0
    /\ tried' = <<>>
    /\ pc' = "biblio"
    /\ UNCHANGED <<inputVars, queryVars, result, error, searchVars, batchVars, i, biblioVars,
                   cpcVars, regVars, all_records, pace>>

\* Lines 257-345: one pass of the loop over biblio_urls, with the outcomes U
\* of the request.
BiblioTry(U) ==
    /\ pc = "biblio"
    /\ url_type < NumUrls
    /\ \E k \in U.fails \cup {"ok"} :
       \E H \in IF k = "ok" THEN U.hits ELSE {{}} :
       \E t \in [H -> U.variants] :
         LET o    == BiblioOutcome(k, MakeDoc(H, t))
             seen == Observe("biblio", o.kind)
         IN  /\ pace' = Called(Slept(pace, BIBLIO_SLEEP), "biblio")
             /\ tried' = Append(tried, seen)
             /\ IF seen = "ok"
                THEN /\ b_root' = o.root
                     /\ biblio' = ExtractBiblio(o.root)
                     /\ pub_date' = ExtractBiblio(o.root).date
                     /\ applicant_name' = ExtractBiblio(o.root).name
                     /\ applicant_country' = ExtractBiblio(o.root).country
                     /\ pc' = "merge"
                     /\ UNCHANGED url_type
                ELSE IF url_type + 1 < NumUrls
                THEN /\ url_type' = url_type + 1
                     /\ UNCHANGED <<pc, biblioVars>>
                ELSE /\ b_root' = NoDoc
                     /\ biblio' = NoBiblio
                     /\ pub_date' = EMPTY
                     /\ applicant_name' = EMPTY
                     /\ applicant_country' = EMPTY
                     /\ pc' = "merge"
                     /\ UNCHANGED url_type
    /\ UNCHANGED <<inputVars, queryVars, result, error, searchVars, batchVars, i, entryVars,
                   cpcVars, regVars, all_records>>

\* Lines 548-557: the search-level fallbacks; extract_cpc_data is entered.
Merge ==
    /\ pc = "merge"
    /\ pub_date' = Fallback(pub_date, search_pub_date)
    /\ applicant_name' = Fallback(applicant_name, search_applicant)
    /\ applicant_country' = Fallback(applicant_country, search_applicant_country)
    /\ b_root' = NoDoc
    /\ url_type' = 0
    /\ tried' = <<>>
    /\ pc' = "cpc"
    /\ UNCHANGED <<inputVars, queryVars, result, error, searchVars, batchVars, i, entryVars,
                   biblio, cpcVars, regVars, all_records, pace>>

\* Lines 354-428: one pass of the loop over cpc_urls, with the outcomes U of
\* the request; on return fetch_register_data is entered.
CpcTry(U) ==
    /\ pc = "cpc"
    /\ url_type < NumUrls
    /\ \E o \in U :
         LET seen == Observe("cpc", o.kind)
         IN  /\ pace' = Called(Slept(pace, CPC_SLEEP), "cpc")
             /\ tried' = Append(tried, seen)
             /\ IF seen = "ok"
                THEN /\ cpc_root' = o.root
                     /\ cpc_main' = ExtractCpc(o.root).main
                     /\ cpc_full' = ExtractCpc(o.root).full
                     /\ pc' = "register"
                     /\ UNCHANGED url_type
                ELSE IF url_type + 1 < NumUrls
                THEN /\ url_type' = url_type + 1
                     /\ UNCHANGED <<pc, cpcVars>>
                ELSE /\ cpc_root' = NoCpc
                     /\ cpc_main' = EMPTY
                     /\ cpc_full' = <<>>
                     /\ pc' = "register"
                     /\ UNCHANGED url_type
             /\ IF seen = "ok" \/ url_type + 1 >= NumUrls
                THEN /\ reg_key' = 1
                     /\ reg_seen' = <<>>
                     /\ data' = NoRegister
                ELSE UNCHANGED regVars
    /\ UNCHANGED <<inputVars, queryVars, result, error, searchVars, batchVars, i, entryVars,
                   biblioVars, all_records>>

\* Lines 208-245: one pass of the loop over the register endpoints, with the
\* outcomes U[key] of the request.
RegisterTry(U) ==
    /\ pc = "register"
    /\ reg_key <= Len(RegKeys)
    /\ \E o \in U[RegKeys[reg_key]] :
         /\ pace' = IF RegRaises(o)
                    THEN Slept(Called(Slept(pace, REGISTER_SLEEP), "register"),
                               REGISTER_SLEEP)
                    ELSE Called(Slept(pace, REGISTER_SLEEP), "register")
         /\ reg_seen' = Append(reg_seen, o)
         /\ data' = RegisterStore(data, RegKeys[reg_key], o)
         /\ IF reg_key < Len(RegKeys)
            THEN /\ reg_key' = reg_key + 1
                 /\ UNCHANGED pc
            ELSE /\ pc' = "append"
                 /\ UNCHANGED reg_key
    /\ UNCHANGED <<inputVars, queryVars, result, error, searchVars, batchVars, i, entryVars,
                   url_type, tried, biblioVars, cpcVars, all_records>>

\* Lines 563-572
Record ==
    [OID |-> oid, DocNumber |-> doc_num, Publn_date |-> pub_date,
     ApplicantFiledName |-> applicant_name, ApplicantCountry |-> applicant_country,
     CPCMain |-> cpc_main, CPCFull |-> Join(cpc_full),
     RepName |-> data.RepName, RepCountry |-> data.RepCountry,
     OpponentName |-> data.OpponentName,
     OppositionFilingDate |-> data.OppositionFilingDate,
     AppealNr |-> data.AppealNr, AppealResult |-> data.AppealResult,
     AppealDate |-> data.AppealDate]

\* Lines 562-579: the record is appended; the document loop goes on.
AppendRecord ==
    /\ pc = "append"
    /\ all_records' = Append(all_records, Record)
    /\ i' = i + 1
    /\ cpc_root' = NoCpc
    /\ reg_seen' = <<>>
    /\ tried' = <<>>
    /\ pc' = "doc"
    /\ UNCHANGED <<inputVars, queryVars, result, error, searchVars, batchVars, entryVars, url_type,
                   biblioVars, cpc_main, cpc_full, reg_key, data, pace>>

\* Lines 588-591: the DataFrame of the records is returned.
Return ==
    /\ pc = "finish"
    /\ result' = DataFrame(all_records)
    /\ pc' = "done"
    /\ UNCHANGED <<inputVars, queryVars, error, searchVars, batchVars, i, entryVars, url_type,
                   tried, biblioVars, cpcVars, regVars, all_records, pace>>

Next ==
    \/ Auth
    \/ FirstSearch
    \/ FirstWindow
    \/ FetchWindow
    \/ EndOfBatch
    \/ DropEntry
    \/ BeginEntry
    \/ BiblioTry(RunBiblio)
    \/ Merge
    \/ CpcTry(RunCpc)
    \/ RegisterTry(RunRegisterFor)
    \/ AppendRecord
    \/ Return

\* A whole run against a remote explored coarsely.
Spec == Init /\ [][Next]_vars

\* ------------------------------------------------- one document, in detail
\* The entries one document is explored with.
PubRefs ==
    {PubRef(c, n, k, d) :
        c \in {<<>>, <<<<" ">> \o T_US>>}, n \in {<<>>, <<T_7>>, <<<<" ">>>>},
        k \in {<<>>, <<T_A1>>}, d \in {<<>>, <<<<"d">>>>}}

DocEntries ==
    {Entry(dn, <<"x">>, ep, pr, ap, ad) :
        dn \in {EMPTY, T_9}, ep \in {"none", "no_number", "leaf", "parent"},
        pr \in {NoRef} \cup PubRefs, ap \in {<<>>, <<" ", "n">>},
        ad \in {<<>>, <<"g">>}}

\* The publication reference's epodoc document-id is itself an epodoc
\* document-id of the entry.
WellFormed(e) == e.pub_ref.present => e.epodoc # "none"

\* A run with a budget of one record, after the token exchange and the first
\* search, which returned the single entry e; batch 0 has taken it.
Started(e) ==
    /\ max_records = 1
    /\ batch_size = 1
    /\ delay = 6
    /\ corpus = <<e>>
    /\ result = Pending
    /\ error = "none"
    /\ headers = TRUE
    /\ search_root = <<e>>
    /\ total_results = 1
    /\ total_to_fetch = 1
    /\ total_batches = 1
    /\ batch_num = 0
    /\ request = [start |-> 1, end |-> 1, budget |-> 1]
    /\ batch_resp = "none"
    /\ skipped = {}
    /\ documents = <<e>>
    /\ i = 1
    /\ b_root = NoDoc
    /\ biblio = NoBiblio
    /\ pub_date = EMPTY
    /\ applicant_name = EMPTY
    /\ applicant_country = EMPTY
    /\ cpc_root = NoCpc
    /\ cpc_main = EMPTY
    /\ cpc_full = <<>>
    /\ reg_key = 1
    /\ reg_seen = <<>>
    /\ data = NoRegister
    /\ all_records = <<>>
    /\ url_type = 0
    /\ tried = <<>>

\* The entry's own values, as BeginEntry leaves them.
Begun(e) ==
    /\ doc_num = ResolveDocNum(e)
    /\ oid = e.doc_id
    /\ search_pub_date = SearchPubDate(e)
    /\ search_applicant = SearchApplicant(e)
    /\ search_applicant_country = SearchApplicantCountry(e)

InitDoc ==
    \E e \in {d \in DocEntries : WellFormed(d)} :
        /\ Started(e)
        /\ NoQuery
        /\ pc = "doc"
        /\ doc_num = EMPTY
        /\ oid = EMPTY
        /\ search_pub_date = EMPTY
        /\ search_applicant = EMPTY
        /\ search_applicant_country = EMPTY
        /\ pace = Called(NoPace, "search")

NextDoc ==
    \/ DropEntry
    \/ BeginEntry
    \/ BiblioTry(DocBiblio)
    \/ Merge
    \/ CpcTry(DocCpc)
    \/ RegisterTry(RunRegisterFor)
    \/ AppendRecord
    \/ EndOfBatch
    \/ Return

\* The processing of one search entry, over every shape of entry.
SpecDoc == InitDoc /\ [][NextDoc]_vars

\* --------------------------------------------- extract_biblio_data, in detail
TheEntry == Entry(T_9, <<"b">>, "none", NoRef, <<>>, <<>>)

InitBiblio ==
    /\ Started(TheEntry)
    /\ Begun(TheEntry)
    /\ NoQuery
    /\ pc = "biblio"
    /\ pace = Called(NoPace, "search")

NextBiblio == BiblioTry(AllBiblio)

\* One call of extract_biblio_data, over every outcome of its requests.
SpecBiblio == InitBiblio /\ [][NextBiblio]_vars

\* --------------------------------------------- fetch_register_data, in detail
InitRegister ==
    /\ Started(TheEntry)
    /\ Begun(TheEntry)
    /\ NoQuery
    /\ pc = "register"
    /\ pace = Called(Slept(NoPace, CPC_SLEEP), "cpc")

NextRegister == RegisterTry(AllRegister)

\* One call of fetch_register_data, over every outcome of its requests.
SpecRegister == InitRegister /\ [][NextRegister]_vars

\* ----------------------------------------------- extract_cpc_data, in detail
\* The classification nodes a body is built from: one without any text, one
\* with a symbol of six characters besides a blank and a slash, one whose
\* cpc-symbol is two characters, one whose symbol is blank and whose text
\* is a code, one whose symbol is a slash alone.
CpcNodes ==
    {CpcNode(<<>>),
     CpcNode(<< <<"H", "0", "4", "L", " ", "9", "/", "0">> >>),
     [CpcNode(<<>>) EXCEPT ![2] = << <<" ", "A", "1">> >>],
     [CpcNode(<< <<" ">> >>) EXCEPT ![3] = << <<"G", "0", "6", "F">>, <<"x">> >>],
     CpcNode(<< <<"/">> >>)}

\* The node the container paths after the first productive one select.
OtherNode == CpcNode(<< <<"B", "6", "0", "K", "1">> >>)

\* The bodies: no classification node at all, or a first container path
\* selecting up to MaxList nodes and any of the later paths selecting one.
AllCpcRoots ==
    {NoCpc}
    \cup {[p \in 1..NumCpcPaths |->
             IF p < first THEN <<>>
             ELSE IF p = first THEN nodes
             ELSE IF p \in later THEN <<OtherNode>> ELSE <<>>] :
            first \in 1..NumCpcPaths,
            nodes \in SeqsUpTo(CpcNodes, MaxList) \ {<<>>},
            later \in SUBSET (1..NumCpcPaths)}

AllCpc ==
    {CpcOutcome(k, NoCpc) : k \in FetchFailures}
    \cup {CpcOutcome("ok", root) : root \in AllCpcRoots}

InitCpc ==
    /\ Started(TheEntry)
    /\ Begun(TheEntry)
    /\ NoQuery
    /\ pc = "cpc"
    /\ pace = Called(Slept(Called(NoPace, "search"), BIBLIO_SLEEP), "biblio")

NextCpc == CpcTry(AllCpc)

\* One call of extract_cpc_data, over every outcome of its requests.
SpecCpc == InitCpc /\ [][NextCpc]_vars

\* ------------------------------------------------ build_cql_query, in detail
\* The filter inputs: every text of commas, blanks and a letter up to
\* MaxInput characters for one filter, nothing or one keyword for the others.
AllInputs == SeqsUpTo({"a", ",", " "}, MaxInput)

RunInputs == {EMPTY, <<"b">>}

AllCriteria ==
    {[r EXCEPT ![f] = s] :
        r \in [DOMAIN NoCriteria -> RunInputs], f \in DOMAIN NoCriteria,
        s \in AllInputs}

InitQuery ==
    /\ max_records = 1
    /\ batch_size = 1
    /\ delay = 6
    /\ corpus = <<>>
    /\ NotStarted
    /\ criteria \in AllCriteria
    /\ query_parts = <<>>
    /\ q_pc = "idle"

\* Lines 1-52: the call of build_cql_query.
BuildQuery ==
    /\ q_pc = "idle"
    /\ query_parts' = build_cql_query(YEAR, criteria)
    /\ q_pc' = "built"
    /\ UNCHANGED <<inputVars, pc, result, error, searchVars, batchVars, i, entryVars,
                   url_type, tried, biblioVars, cpcVars, regVars, all_records, pace,
                   criteria>>

NextQuery == BuildQuery

\* One call of build_cql_query, over the filter inputs.
SpecQuery == InitQuery /\ [][NextQuery]_vars

\* ------------------------------------------------------------ properties
EnrichmentPcs == {"biblio", "cpc", "register"}

\* C1: the number of assembled records never exceeds the record limit, and
\* once the limit is reached the run is never at a point where it is about
\* to issue a biblio, classification or register request, even when entries
\* of the current window are still unprocessed.
C1_BudgetEnforced ==
    /\ Len(all_records) <= max_records
    /\ Len(all_records) >= max_records => pc \notin EnrichmentPcs \cup {"merge", "append"}

\* C1 witness: the limit is reached in the middle of a window.
C1_MidWindow ==
    /\ Len(all_records) = max_records
    /\ pc = "doc"
    /\ i <= Len(documents)

\* C2 (as claimed): a run that ends with records assembled was not halted by
\* an error of a later window or of a document (the only exceptions that
\* reach the outer handler come from the token exchange or the first
\* search), and it returns exactly the records assembled.
C2_ErrorsCaughtAtOrigin ==
    (pc = "done" /\ all_records # <<>>)
      => /\ error \in {"none", "auth", "search"}
         /\ result = DataFrame(all_records)

\* C3: a step in which a later window's request comes back with a non-success
\* status leaves the records as they are, does not end the run with an
\* error, and moves the loop to the next batch, whose window is requested
\* next when there is one.
C3_FailedWindowSkipped ==
    [][(pc = "window" /\ batch_num > 0 /\ batch_resp' = "http_error")
        => /\ all_records' = all_records
           /\ result' = Pending
           /\ error' = "none"
           /\ batch_num' = batch_num + 1
           /\ pc' = IF batch_num + 1 < total_batches THEN "window" ELSE "finish"]_vars

\* C3 witness: a window was skipped, a later window was fetched, and a record
\* assembled before the failure is still there.
C3_SkippedThenFetched ==
    /\ pc = "doc"
    /\ batch_resp = "ok"
    /\ \E b \in skipped : b < batch_num
    /\ all_records # <<>>

\* An entry that carries no identifier at all.
NoIdentifier(doc) ==
    doc.doc_number = EMPTY /\ doc.epodoc = "none" /\ ~doc.pub_ref.present

\* C6: every record has a non-empty DocNumber, and the step that meets an
\* entry without an identifier adds no record, issues no call and moves on
\* to the next entry.
C6_RecordsHaveIdentifier ==
    [][/\ \A k \in 1..Len(all_records') : all_records'[k].DocNumber # EMPTY
       /\ (pc = "doc" /\ i <= Len(documents) /\ Len(all_records) < max_records
             /\ NoIdentifier(documents[i]))
           => /\ all_records' = all_records
              /\ pace' = pace
              /\ pc' = "doc"
              /\ i' = i + 1]_vars

\* C6 witness: the first entry of the window had no identifier and the one
\* after it was recorded.
C6_DroppedThenRecorded ==
    /\ pc = "doc"
    /\ batch_num = 0
    /\ Len(documents) >= 2
    /\ NoIdentifier(documents[1])
    /\ i = 3
    /\ Len(all_records) = 1

\* C7 (as claimed): every search request, the first included, has
\* 1 <= start <= end, at most batch_size entries, and at most as many
\* entries as the record budget left when it is issued.
C7_RequestWithinBudget ==
    request # NoRequest
      => /\ 1 <= request.start
         /\ request.start <= request.end
         /\ request.end - request.start + 1 <= batch_size
         /\ request.end - request.start + 1 <= request.budget

\* C10 (as claimed): no remote call blocks the run for ever.
C10_NoCallBlocks == pc # "blocked"

\* The composed identifier of an entry whose publication reference yields a
\* non-empty country and number: country, number, and kind when it has one.
ComposedOf(doc) ==
    LET c == Strip(doc.pub_ref.country[1])
        n == Strip(doc.pub_ref.number[1])
        k == IF doc.pub_ref.kind = <<>> THEN EMPTY ELSE Strip(doc.pub_ref.kind[1])
    IN  c \o n \o k

ComposedDerivable(doc) ==
    /\ doc.pub_ref.present
    /\ doc.pub_ref.country # <<>>
    /\ doc.pub_ref.number # <<>>
    /\ Strip(doc.pub_ref.country[1]) # EMPTY
    /\ Strip(doc.pub_ref.number[1]) # EMPTY

\* The entry of the window has been taken up or passed over.
EntryHandled == pc # "doc" \/ i > 1

\* The entry of the window was taken up, not passed over.
EntryTaken == pc = "doc" => Len(all_records) = 1

\* C5 (as claimed): an entry with only a bare doc-number resolves to it, and
\* an entry whose publication reference yields country and number resolves
\* to the composed identifier whether or not the entry has a bare doc-number.
C5_ComposedOverridesRaw ==
    EntryHandled
      => /\ (documents[1].doc_number # EMPTY /\ ~documents[1].pub_ref.present)
               => doc_num = documents[1].doc_number /\ EntryTaken
         /\ ComposedDerivable(documents[1])
               => doc_num = ComposedOf(documents[1]) /\ EntryTaken

\* What the code does in the cases C5 names, for comparison: the same, for
\* the entries that have a doc-number attribute.
C5_ComposedOverridesRawAttribute ==
    (EntryHandled /\ documents[1].doc_number # EMPTY)
      => /\ ~documents[1].pub_ref.present
               => doc_num = documents[1].doc_number /\ EntryTaken
         /\ ComposedDerivable(documents[1])
               => doc_num = ComposedOf(documents[1]) /\ EntryTaken

\* Enrichment value if non-empty, else search-level value, else empty.
Precedence(enriched, searched) ==
    IF enriched # EMPTY THEN enriched
    ELSE IF searched # EMPTY THEN searched ELSE EMPTY

\* The search-level values of an entry: the first date text of its
\* publication reference, and the stripped texts of its applicant name and
\* applicant address country.
SearchLevel(doc) ==
    [date    |-> IF doc.pub_ref.present /\ doc.pub_ref.date # <<>>
                 THEN doc.pub_ref.date[1] ELSE EMPTY,
     name    |-> Strip(doc.applicant),
     country |-> Strip(doc.address)]

\* C8: after the merge, and in the record appended, publication date,
\* applicant name and applicant country each carry the value
\* extract_biblio_data returned when it is non-empty, else the search-level
\* value of the entry, else the empty string.
C8_MergePrecedence ==
    LET s == SearchLevel(documents[1])
    IN  /\ pc \in {"cpc", "register", "append"}
            => /\ pub_date = Precedence(biblio.date, s.date)
               /\ applicant_name = Precedence(biblio.name, s.name)
               /\ applicant_country = Precedence(biblio.country, s.country)
        /\ all_records # <<>>
            => /\ all_records[1].Publn_date = Precedence(biblio.date, s.date)
               /\ all_records[1].ApplicantFiledName = Precedence(biblio.name, s.name)
               /\ all_records[1].ApplicantCountry = Precedence(biblio.country, s.country)

\* C8 witness: extract_biblio_data returned nothing and the record carries
\* the three search-level values.
C8_FallbackCarried ==
    /\ all_records # <<>>
    /\ biblio = NoBiblio
    /\ all_records[1].Publn_date = <<"d">>
    /\ all_records[1].ApplicantFiledName = <<"n">>
    /\ all_records[1].ApplicantCountry = <<"g">>

\* The value of the lowest-indexed path of field f that yields a non-empty
\* value in a body, or the empty string when none does.
LowestYield(root, f) ==
    LET yields == {n \in 1..NumPaths :
                     root[<<f, n>>] # <<>> /\ Strip(root[<<f, n>>][1]) # EMPTY}
    IN  IF yields = {} THEN EMPTY ELSE Strip(root[<<f, Min(yields)>>][1])

\* C9: the variants are tried in order and a variant is requested only when
\* every earlier one failed; on the first success each field is the value of
\* its lowest-indexed yielding path; when every variant fails all fields are
\* empty; no error reaches the run.
C9_OrderedFallback ==
    /\ pc \in {"biblio", "merge"} => error = "none" /\ result = Pending
    /\ pc = "biblio" => Len(tried) = url_type /\ \A k \in 1..Len(tried) : tried[k] # "ok"
    /\ pc = "merge"
        => /\ Len(tried) \in 1..NumUrls
           /\ \A k \in 1..(Len(tried) - 1) : tried[k] # "ok"
           /\ IF tried[Len(tried)] = "ok"
              THEN \A f \in BiblioFields : biblio[f] = LowestYield(b_root, f)
              ELSE Len(tried) = NumUrls /\ biblio = NoBiblio

\* C9 witness: the first variant failed, the second succeeded, and only the
\* third date path yields a value.
C9_ThirdPathOnly ==
    /\ pc = "merge"
    /\ tried = <<"404", "ok">>
    /\ b_root[<<"date", 1>>] = <<>>
    /\ b_root[<<"date", 2>>] = << <<" ">> >>
    /\ biblio.date = <<"D", "3">>

\* The fields a sub-fetch fills, as (f1, f2, f3).
FieldsOf(d, key) ==
    CASE key = "rep" -> <<d.RepName, d.RepCountry, EMPTY>>
      [] key = "opp" -> <<d.OpponentName, d.OppositionFilingDate, EMPTY>>
      [] OTHER -> <<d.AppealNr, d.AppealResult, d.AppealDate>>

\* A sub-fetch succeeded: status 200, a JSON object, and a first list entry
\* that is an object.
Succeeded(o) == o.kind = "ok" /\ o.list # <<>> /\ o.list[1].object

\* C4: all three sub-fetches are attempted whatever the earlier ones came
\* to; the fields of a sub-fetch that succeeded are those of its first list
\* entry, the fields of one that failed (or is not yet made) are empty.
C4_SubFetchesIsolated ==
    /\ pc = "register" => Len(reg_seen) = reg_key - 1
    /\ pc = "append" => Len(reg_seen) = Len(RegKeys)
    /\ pc \in {"register", "append"}
        => \A k \in 1..Len(RegKeys) :
             FieldsOf(data, RegKeys[k]) =
                IF k <= Len(reg_seen) /\ Succeeded(reg_seen[k])
                THEN LET r == reg_seen[k].list[1]
                     IN  <<r.f1, r.f2, IF RegKeys[k] = "appeal" THEN r.f3 ELSE EMPTY>>
                ELSE <<EMPTY, EMPTY, EMPTY>>

\* C4 witness: the opposition request timed out, and the representative and
\* appeal fields are filled from the first entries of two-entry lists.
C4_OppositionFailedOnly ==
    /\ pc = "append"
    /\ reg_seen[2].kind = "no_response"
    /\ Len(reg_seen[1].list) = 2
    /\ data.RepName = <<"rep", "1">>
    /\ data.RepCountry = <<"rep", "2">>
    /\ data.OpponentName = EMPTY
    /\ data.OppositionFilingDate = EMPTY
    /\ data.AppealNr = <<"appeal", "1">>
    /\ data.AppealDate = <<"appeal", "3">>

\* The part of query_parts the filter f contributed: the parts follow the
\* year clause, one for each non-empty filter, in the order of the filters.
PartIndex(f) ==
    1 + Cardinality({k \in 1..Len(QueryFields) :
                       /\ Truthy(criteria[QueryFields[k]])
                       /\ \E m \in k..Len(QueryFields) : QueryFields[m] = f})

\* N per-token clauses joined by the filter's operator, in parentheses if
\* and only if N > 1.
ClauseGroup(f, tokens) ==
    LET joined == JoinWith(OperatorOfField[f],
                           [k \in 1..Len(tokens) |-> Clause(TagOfField[f], tokens[k])])
    IN  IF Len(tokens) > 1 THEN <<"(">> \o joined \o <<")">> ELSE joined

\* C11: every non-empty multi-value filter with N tokens left after
\* splitting on commas, trimming and discarding empty tokens contributes
\* exactly its N per-token clauses joined by its operator, wrapped in
\* parentheses if and only if N > 1 (a filter such as "," leaves N = 0).
C11_ClauseGroups ==
    q_pc = "built" =>
      \A f \in DOMAIN criteria :
        Truthy(criteria[f]) =>
          /\ PartIndex(f) <= Len(query_parts)
          /\ query_parts[PartIndex(f)] = ClauseGroup(f, Keywords(criteria[f]))

\* The same for the filters that leave at least one token.
C11_ClauseGroupsWithTokens ==
    q_pc = "built" =>
      \A f \in DOMAIN criteria :
        Keywords(criteria[f]) # <<>> =>
          /\ PartIndex(f) <= Len(query_parts)
          /\ query_parts[PartIndex(f)] = ClauseGroup(f, Keywords(criteria[f]))

\* The run returned with every search request answered and no window skipped,
\* and every entry of the result set resolves an identifier.
AllWindowsServed ==
    /\ pc = "done"
    /\ error = "none"
    /\ skipped = {}
    /\ \A k \in 1..Len(corpus) : IdentifierResolves(corpus[k])

\* C12: when every search window succeeds and every entry resolves an
\* identifier, the run returns exactly one row for each of the first
\* min(max_records, total result count) entries of the result set, in the
\* order of the result set across windows.
C12_RowsInDiscoveryOrder ==
    AllWindowsServed =>
      /\ result = DataFrame(all_records)
      /\ Len(all_records) = MinOf(max_records, Len(corpus))
      /\ \A k \in 1..Len(all_records) :
           /\ all_records[k].OID = corpus[k].doc_id
           /\ all_records[k].DocNumber = ResolveDocNum(corpus[k])

\* Three rows from two windows of a result set whose entries differ.
C12_TwoWindows ==
    /\ AllWindowsServed
    /\ batch_size = 2
    /\ Len(all_records) = 3
    /\ batch_num >= 1
    /\ corpus[1] # corpus[2]
    /\ corpus[2] # corpus[3]

\* C13: between every two successive search-window requests of a run the
\* configured inter-window delay is slept, whatever the earlier window came
\* to: a later window is never about to be requested with less than delay
\* seconds of time.sleep(delay) since the search request before it.
C13_DelayBetweenWindows ==
    (pc = "window" /\ batch_num > 0) => pace.win >= 2 * delay

\* The same for the windows that follow a window that was answered with
\* status 200.
C13_DelayAfterServedWindow ==
    (pc = "window" /\ batch_num > 0 /\ (batch_num - 1) \notin skipped)
      => pace.win >= 2 * delay

\* The remote calls that target a sub-resource of one document.
PerDocumentCalls == {"biblio", "cpc", "register"}

\* C14: after every remote call for a per-document sub-resource a minimum
\* delay elapses before the run issues any further remote call: at least the
\* 1.5 seconds of the shortest fixed sleep before a further per-document
\* call, at least the configured delay (one second or more) before a further
\* search request; no call follows a per-document call back to back.
C14_DelayAfterPerDocumentCall ==
    pace.prev \in PerDocumentCalls =>
      /\ pace.gap > 0
      /\ pace.gap >= MinOf(CPC_SLEEP, 2 * delay)
      /\ pace.last \in PerDocumentCalls => pace.gap >= CPC_SLEEP
      /\ pace.last = "search" => pace.gap >= 2 * delay

\* A window was requested right after the last register call of a document,
\* with the shortest delay that can be configured.
C14_WindowAfterRegister ==
    /\ pace.prev = "register"
    /\ pace.last = "search"
    /\ delay = 1
    /\ pace.gap = 2

\* The first container path that yields any node, 0 when none does.
FirstContainer(root) ==
    IF \E p \in 1..NumCpcPaths : root[p] # <<>>
    THEN Min({p \in 1..NumCpcPaths : root[p] # <<>>})
    ELSE 0

\* The symbol of a node: what the first per-node path with a non-blank first
\* result gives, trimmed; empty when no path has one.
ResolvedSymbol(c) ==
    LET yielding == {p \in 1..NumSymbolPaths : c[p] # <<>> /\ Strip(c[p][1]) # <<>>}
    IN  IF yielding = {} THEN EMPTY ELSE Strip(c[Min(yielding)][1])

\* Every resolved code of the nodes, in node order, blanks and slashes removed.
ResolvedCodes(nodes) ==
    LET resolved == SelectSeq(nodes, LAMBDA c : ResolvedSymbol(c) # <<>>)
    IN  [k \in 1..Len(resolved) |->
           SelectSeq(ResolvedSymbol(resolved[k]), LAMBDA ch : ch \notin {" ", "/"})]

\* The first four characters of the first code of at least four characters.
MainOf(full) ==
    LET long == {k \in 1..Len(full) : Len(full[k]) >= 4}
    IN  IF long = {} THEN EMPTY ELSE SubSeq(full[Min(long)], 1, 4)

\* extract_cpc_data returned from a parsed response.
CpcParsed == pc = "register" /\ tried # <<>> /\ tried[Len(tried)] = "ok"

\* C15: within a successful response the codes come only from the first
\* container path that yields any node, even if its nodes yield no code; the
\* full list holds every resolved code in node order with spaces and slashes
\* removed, and the main code is the first 4 characters of the first code of
\* the full list whose length is at least 4, or empty when there is none.
C15_FirstContainerOnly ==
    CpcParsed =>
      LET first == FirstContainer(cpc_root)
          full  == IF first = 0 THEN <<>> ELSE ResolvedCodes(cpc_root[first])
      IN  /\ cpc_full = full
          /\ cpc_main = MainOf(full)

\* The first container path gave a short code and then a long one, which
\* supplies the main code; a later container path has a node too.
C15_MainFromSecondCode ==
    /\ CpcParsed
    /\ cpc_full = << <<"A", "1">>, <<"H", "0", "4", "L", "9", "0">> >>
    /\ cpc_main = <<"H", "0", "4", "L">>
    /\ \E p \in 1..NumCpcPaths : p > FirstContainer(cpc_root) /\ cpc_root[p] # <<>>

\* The first container path's nodes gave no code and a later path has a node.
C15_UnproductiveFirstPath ==
    /\ CpcParsed
    /\ FirstContainer(cpc_root) > 0
    /\ cpc_full = <<>>
    /\ \E p \in 1..NumCpcPaths : p > FirstContainer(cpc_root) /\ cpc_root[p] # <<>>

====
